---- MODULE Spec2Model ----
(***************************************************************************)
(* Pedestrian costing strategy of the route-search engine                  *)
(* (src/src/thor/pedestriancost.cc).                                       *)
(*                                                                         *)
(* Numbers.  The C++ code computes in float.  The model keeps every value  *)
(* as an integer in a fixed unit:                                          *)
(*   - lengths and distances          : metres                             *)
(*   - walkingspeed_                  : tenths of km/h   (5.1f  -> 51)     *)
(*   - favorwalkways_, AStarCostFactor: tenths           (0.9f  -> 9)      *)
(*   - Get (edge cost), UnitSize      : tenths of a cost unit              *)
(*   - Seconds                        : hundredths of a second, truncated  *)
(* so that length * favorwalkways_ is the exact product length * 9 / 10.   *)
(***************************************************************************)
EXTENDS Integers, FiniteSets, Sequences, TLC

VARIABLES strategy, call

vars == <<strategy, call>>

(***************************************************************************)
(* Bounds of the model.                                                    *)
(***************************************************************************)
\* access masks range over 0..MaxAccess (bit 0 auto, bit 1 pedestrian, ...)
MaxAccess == 3
\* turn-restriction masks (the edge's own and the argument) range over 0..MaxRestriction
MaxRestriction == 1
\* configured not-through tolerances range over -1..MaxTol
MaxTol == 2

\* distances to the destination: up to one past the largest tolerance
Dists == 0 .. (MaxTol + 1)
\* edge lengths in metres (0 and the lengths of the scenarios)
Lengths == {0, 50, 100}
Uses == {"kRoad", "kFootway", "kSteps"}
AccessMasks == 0 .. MaxAccess
Restrictions == 0 .. MaxRestriction

(***************************************************************************)
(* Constants of the graph library (baldr).                                 *)
(***************************************************************************)
kPedestrianAccess == 2

RECURSIVE BitAnd(_, _)
\* a & b on unsigned integers
BitAnd(a, b) ==
  IF a = 0 \/ b = 0 THEN 0
  ELSE (a % 2) * (b % 2) + 2 * BitAnd(a \div 2, b \div 2)

(***************************************************************************)
(* The attribute records the costing reads (never writes).                 *)
(***************************************************************************)
DirectedEdge ==
  [forwardaccess : AccessMasks, length : Lengths, use : Uses,
   not_thru : BOOLEAN, trans_up : BOOLEAN, trans_down : BOOLEAN,
   restrictions : Restrictions]

NodeInfo == [access : AccessMasks]

(***************************************************************************)
(* Configuration: a property tree, here a function from the keys that are  *)
(* set to their values.  The not-through tolerance is always given.        *)
(***************************************************************************)
ConfigKeys == {"walking_speed", "favor_walkways", "not_thru_distance"}
ConfigValues == -1 .. MaxTol
Configs ==
  UNION { [K -> ConfigValues] :
            K \in {J \in SUBSET ConfigKeys : "not_thru_distance" \in J} }

(***************************************************************************)
(* Construction.                                                           *)
(***************************************************************************)
\* Base-class constructor DynamicCost(config): owns not_thru_distance_.
DynamicCost(config) ==
  IF config["not_thru_distance"] < 0
  THEN [threw |-> TRUE]
  ELSE [threw |-> FALSE, not_thru_distance_ |-> config["not_thru_distance"]]

\* PedestrianCost::PedestrianCost(config): the two members are set to their
\* defaults; the configuration is not parsed.
PedestrianCost(config) ==
  LET base == DynamicCost(config) IN
  IF base.threw
  THEN [threw |-> TRUE]
  ELSE [threw |-> FALSE,
        not_thru_distance_ |-> base.not_thru_distance_,
        walkingspeed_ |-> 51,
        favorwalkways_ |-> 9]

\* the shared handle (cost_ptr_t) before any strategy has been made
NoStrategy == [null |-> TRUE]

\* CreatePedestrianCost(config): make_shared<PedestrianCost>(config); an
\* exception of the constructor propagates and no handle is returned.
CreatePedestrianCost(config) ==
  LET made == PedestrianCost(config) IN
  IF made.threw
  THEN [threw |-> TRUE]
  ELSE [threw |-> FALSE,
        ptr |-> [null |-> FALSE,
                 not_thru_distance_ |-> made.not_thru_distance_,
                 walkingspeed_ |-> made.walkingspeed_,
                 favorwalkways_ |-> made.favorwalkways_]]

(***************************************************************************)
(* The const member functions, as functions of the object and arguments.   *)
(***************************************************************************)
\* Variant: the tolerance test written with >= (off by one at the boundary).
Allowed_GreaterEqual(self, edge, restriction, uturn, dist2dest) ==
  /\ BitAnd(edge.forwardaccess, kPedestrianAccess) # 0
  /\ ~uturn
  /\ ~(edge.not_thru /\ dist2dest >= self.not_thru_distance_)

\* Variant: the access test made against another mode's bit (kAutoAccess).
Allowed_AutoBit(self, edge, restriction, uturn, dist2dest) ==
  /\ BitAnd(edge.forwardaccess, 1) # 0
  /\ ~uturn
  /\ ~(edge.not_thru /\ dist2dest > self.not_thru_distance_)

\* Variant: the U-turn test left out.
Allowed_NoUTurnTest(self, edge, restriction, uturn, dist2dest) ==
  /\ BitAnd(edge.forwardaccess, kPedestrianAccess) # 0
  /\ ~(edge.not_thru /\ dist2dest > self.not_thru_distance_)

\* Variant: the restriction mask honoured, as a vehicle profile would.
Allowed_TestsRestriction(self, edge, restriction, uturn, dist2dest) ==
  /\ BitAnd(edge.forwardaccess, kPedestrianAccess) # 0
  /\ ~uturn
  /\ ~(edge.not_thru /\ dist2dest > self.not_thru_distance_)
  /\ BitAnd(edge.restrictions, restriction) = 0

Allowed(self, edge, restriction, uturn, dist2dest) ==
  /\ BitAnd(edge.forwardaccess, kPedestrianAccess) # 0
  /\ ~uturn
  /\ ~(edge.not_thru /\ dist2dest > self.not_thru_distance_)

\* Variant: any access bit opens the node.
AllowedNode_AnyAccess(self, node) ==
  node.access # 0

AllowedNode(self, node) ==
  BitAnd(node.access, kPedestrianAccess) # 0

\* Variant: steps are favoured like footways.
Get_StepsToo(self, edge) ==
  IF edge.use \in {"kFootway", "kSteps"}
  THEN edge.length * self.favorwalkways_
  ELSE edge.length * 10

Get(self, edge) ==
  IF edge.use = "kFootway"
  THEN edge.length * self.favorwalkways_
  ELSE edge.length * 10

Seconds(self, edge) ==
  (edge.length * 36 * 100) \div self.walkingspeed_

\* Variant: the larger of the two factors (max instead of min).
AStarCostFactor_Max(self) ==
  IF self.favorwalkways_ < 10 THEN 10 ELSE self.favorwalkways_

AStarCostFactor(self) ==
  IF self.favorwalkways_ < 10 THEN self.favorwalkways_ ELSE 10

UnitSize(self) == 20

\* Variant: the filter without the access test.
EdgeFilter_NoAccessTest(edge) ==
  \/ edge.trans_up
  \/ edge.trans_down

\* the lambda GetFilter returns; it captures nothing
EdgeFilter(edge) ==
  \/ edge.trans_up
  \/ edge.trans_down
  \/ ~(BitAnd(edge.forwardaccess, kPedestrianAccess) # 0)

(***************************************************************************)
(* Searches.  Each search calls the shared strategy: it invokes one        *)
(* operation with arguments of its choice (pc "called"), the operation     *)
(* runs (pc "returned", with its result), and the search takes the result  *)
(* (pc "idle").  Calls of different searches interleave freely.            *)
(***************************************************************************)
Idle == [pc |-> "idle"]

Pending(s, op) == call[s].pc = "called" /\ call[s].op = op

\* the call record c, returned with result r
Returned(c, r) ==
  [f \in (DOMAIN c) \cup {"result"} |->
     IF f = "result" THEN r ELSE IF f = "pc" THEN "returned" ELSE c[f]]

\* A search (or the service on its behalf) asks the factory for a strategy.
InvokeCreate(s, CC) ==
  /\ call[s].pc = "idle"
  /\ strategy.null
  /\ \A o \in DOMAIN call : call[o].pc = "idle"
  /\ \E config \in CC :
       call' = [call EXCEPT ![s] =
                  [pc |-> "called", op |-> "CreatePedestrianCost", config |-> config]]
  /\ UNCHANGED strategy

\* A search invokes one of the strategy's operations.
InvokeAllowed(s, EE, RR, DD) ==
  /\ call[s].pc = "idle"
  /\ ~strategy.null
  /\ \E edge \in EE, restriction \in RR, uturn \in BOOLEAN, dist2dest \in DD :
       call' = [call EXCEPT ![s] =
                  [pc |-> "called", op |-> "Allowed", edge |-> edge,
                   restriction |-> restriction, uturn |-> uturn,
                   dist2dest |-> dist2dest]]
  /\ UNCHANGED strategy

InvokeAllowedNode(s, NN) ==
  /\ call[s].pc = "idle"
  /\ ~strategy.null
  /\ \E node \in NN :
       call' = [call EXCEPT ![s] = [pc |-> "called", op |-> "AllowedNode", node |-> node]]
  /\ UNCHANGED strategy

\* Get, Seconds and the filter lambda take one edge
InvokeOnEdge(s, EE) ==
  /\ call[s].pc = "idle"
  /\ ~strategy.null
  /\ \E edge \in EE, op \in {"Get", "Seconds", "EdgeFilter"} :
       call' = [call EXCEPT ![s] = [pc |-> "called", op |-> op, edge |-> edge]]
  /\ UNCHANGED strategy

\* AStarCostFactor, UnitSize and GetFilter take no argument
InvokeNoArg(s) ==
  /\ call[s].pc = "idle"
  /\ ~strategy.null
  /\ \E op \in {"AStarCostFactor", "UnitSize", "GetFilter"} :
       call' = [call EXCEPT ![s] = [pc |-> "called", op |-> op]]
  /\ UNCHANGED strategy

\* The search takes the result of its call.
TakeResult(s) ==
  /\ call[s].pc = "returned"
  /\ call' = [call EXCEPT ![s] = Idle]
  /\ UNCHANGED strategy

(***************************************************************************)
(* The operations, run on behalf of search s.                              *)
(***************************************************************************)
RunCreatePedestrianCost(s) ==
  /\ Pending(s, "CreatePedestrianCost")
  /\ LET r == CreatePedestrianCost(call[s].config) IN
       IF r.threw
       THEN /\ call' = [call EXCEPT ![s] = Returned(call[s], "ConfigurationError")]
            /\ UNCHANGED strategy
       ELSE /\ call' = [call EXCEPT ![s] = Returned(call[s], "cost_ptr_t")]
            /\ strategy' = r.ptr

RunAllowed(s) ==
  /\ Pending(s, "Allowed")
  /\ call' = [call EXCEPT ![s] =
       Returned(call[s], Allowed(strategy, call[s].edge, call[s].restriction,
                                 call[s].uturn, call[s].dist2dest))]
  /\ UNCHANGED strategy

RunAllowedNode(s) ==
  /\ Pending(s, "AllowedNode")
  /\ call' = [call EXCEPT ![s] = Returned(call[s], AllowedNode(strategy, call[s].node))]
  /\ UNCHANGED strategy

\* Variant: Get keeps the factor it applied in the member (a write to the
\* shared object).
RunGet_WritesFactor(s) ==
  /\ Pending(s, "Get")
  /\ call' = [call EXCEPT ![s] = Returned(call[s], Get(strategy, call[s].edge))]
  /\ strategy' = [strategy EXCEPT !.favorwalkways_ =
                    IF call[s].edge.use = "kFootway" THEN @ ELSE 10]

RunGet(s) ==
  /\ Pending(s, "Get")
  /\ call' = [call EXCEPT ![s] = Returned(call[s], Get(strategy, call[s].edge))]
  /\ UNCHANGED strategy

RunSeconds(s) ==
  /\ Pending(s, "Seconds")
  /\ call' = [call EXCEPT ![s] = Returned(call[s], Seconds(strategy, call[s].edge))]
  /\ UNCHANGED strategy

RunAStarCostFactor(s) ==
  /\ Pending(s, "AStarCostFactor")
  /\ call' = [call EXCEPT ![s] = Returned(call[s], AStarCostFactor(strategy))]
  /\ UNCHANGED strategy

RunUnitSize(s) ==
  /\ Pending(s, "UnitSize")
  /\ call' = [call EXCEPT ![s] = Returned(call[s], UnitSize(strategy))]
  /\ UNCHANGED strategy

RunGetFilter(s) ==
  /\ Pending(s, "GetFilter")
  /\ call' = [call EXCEPT ![s] = Returned(call[s], "EdgeFilter")]
  /\ UNCHANGED strategy

RunEdgeFilter(s) ==
  /\ Pending(s, "EdgeFilter")
  /\ call' = [call EXCEPT ![s] = Returned(call[s], EdgeFilter(call[s].edge))]
  /\ UNCHANGED strategy

(***************************************************************************)
(* Spec: one search, every edge and node of the bounded attribute sets.    *)
(***************************************************************************)
Searches == {"s1"}

Init ==
  /\ strategy = NoStrategy
  /\ call = [s \in Searches |-> Idle]

Next ==
  \E s \in Searches :
    \/ InvokeCreate(s, Configs)
    \/ InvokeAllowed(s, DirectedEdge, Restrictions, Dists)
    \/ InvokeAllowedNode(s, NodeInfo)
    \/ InvokeOnEdge(s, DirectedEdge)
    \/ InvokeNoArg(s)
    \/ TakeResult(s)
    \/ RunCreatePedestrianCost(s)
    \/ RunAllowed(s)
    \/ RunAllowedNode(s)
    \/ RunGet(s)
    \/ RunSeconds(s)
    \/ RunAStarCostFactor(s)
    \/ RunUnitSize(s)
    \/ RunGetFilter(s)
    \/ RunEdgeFilter(s)

Spec == Init /\ [][Next]_vars

(***************************************************************************)
(* SpecShared: two searches share one strategy handle; their calls         *)
(* interleave.  The edges are the level edges of length 50 with no         *)
(* restriction of their own, walkable or closed to every mode.             *)
(***************************************************************************)
SharedSearches == {"s1", "s2"}

SharedEdges ==
  {e \in DirectedEdge :
     /\ e.length = 50
     /\ e.forwardaccess \in {0, kPedestrianAccess}
     /\ e.use \in {"kRoad", "kFootway"}
     /\ ~e.trans_up /\ ~e.trans_down
     /\ e.restrictions = 0}

SharedNodes == {n \in NodeInfo : n.access \in {0, kPedestrianAccess}}

InitShared ==
  /\ strategy = NoStrategy
  /\ call = [s \in SharedSearches |-> Idle]

NextShared ==
  \E s \in SharedSearches :
    \/ InvokeCreate(s, Configs)
    \/ InvokeAllowed(s, SharedEdges, {0}, Dists)
    \/ InvokeAllowedNode(s, SharedNodes)
    \/ InvokeOnEdge(s, SharedEdges)
    \/ InvokeNoArg(s)
    \/ TakeResult(s)
    \/ RunCreatePedestrianCost(s)
    \/ RunAllowed(s)
    \/ RunAllowedNode(s)
    \/ RunGet(s)
    \/ RunSeconds(s)
    \/ RunAStarCostFactor(s)
    \/ RunUnitSize(s)
    \/ RunGetFilter(s)
    \/ RunEdgeFilter(s)

SpecShared == InitShared /\ [][NextShared]_vars

(***************************************************************************)
(* Properties.                                                             *)
(***************************************************************************)
\* search s holds the result of a call of op
Done(s, op) == call[s].pc = "returned" /\ call[s].op = op

\* the mask contains the pedestrian bit, stated without BitAnd
HasPed(mask) == (mask \div kPedestrianAccess) % 2 = 1
SetPed(mask) == IF HasPed(mask) THEN mask ELSE mask + kPedestrianAccess
ClearPed(mask) == IF HasPed(mask) THEN mask - kPedestrianAccess ELSE mask

\* the valid domain of each configuration parameter: speed > 0, weight >= 0,
\* tolerance >= 0
ValidConfig(config) ==
  /\ ("walking_speed" \in DOMAIN config => config["walking_speed"] > 0)
  /\ ("favor_walkways" \in DOMAIN config => config["favor_walkways"] >= 0)
  /\ ("not_thru_distance" \in DOMAIN config => config["not_thru_distance"] >= 0)

\* C1: admissibility.  For every edge whose cost a search obtained,
\* AStarCostFactor() * length <= Get(edge) (both sides in tenths); every
\* AStarCostFactor() call returns 0.9; a footway of length 100 costs 90.
C1_Admissible ==
  \A s \in DOMAIN call :
    /\ Done(s, "Get") =>
         /\ AStarCostFactor(strategy) * call[s].edge.length <= call[s].result
         /\ (call[s].edge.use = "kFootway" /\ call[s].edge.length = 100
               => call[s].result = 900)
    /\ Done(s, "AStarCostFactor") => call[s].result = 9

C1_Witness ==
  \E s \in DOMAIN call :
    /\ Done(s, "Get")
    /\ call[s].edge.use = "kFootway" /\ call[s].edge.length = 100
    /\ call[s].edge.forwardaccess = 0
    /\ call[s].result = 900

\* C2: a factory call with a configuration parameter outside its valid domain
\* ends with a ConfigurationError and leaves no strategy handle behind.
C2_InvalidConfigRejected ==
  \A s \in DOMAIN call :
    Done(s, "CreatePedestrianCost") /\ ~ValidConfig(call[s].config)
      => call[s].result = "ConfigurationError" /\ strategy.null

\* C3: filter/Allowed agreement.  An edge the filter lambda does not exclude
\* has the pedestrian forward-access bit, and Allowed on it is false exactly
\* for a U-turn or a not-through edge beyond the tolerance; an edge with a
\* transition flag or without the pedestrian bit is excluded.
C3_FilterAgreesWithAllowed ==
  \A s \in DOMAIN call :
    /\ Done(s, "EdgeFilter") =>
         LET e == call[s].edge IN
         /\ ~call[s].result =>
              /\ HasPed(e.forwardaccess)
              /\ \A r \in Restrictions, u \in BOOLEAN, d \in Dists :
                   Allowed(strategy, e, r, u, d)
                     = (~u /\ ~(e.not_thru /\ d > strategy.not_thru_distance_))
         /\ (e.trans_up \/ e.trans_down \/ ~HasPed(e.forwardaccess))
              => call[s].result
    /\ (Done(s, "Allowed") /\ ~call[s].result /\ ~EdgeFilter(call[s].edge)) =>
         \/ call[s].uturn
         \/ (call[s].edge.not_thru
               /\ call[s].dist2dest > strategy.not_thru_distance_)

C3_Witness ==
  \E s \in DOMAIN call :
    /\ Done(s, "EdgeFilter")
    /\ ~call[s].result
    /\ call[s].edge.not_thru
    /\ call[s].edge.forwardaccess = MaxAccess

\* C4: not-through tolerance.  For a not-through edge with the pedestrian
\* bit and no U-turn, Allowed is true exactly when dist2dest is at most the
\* tolerance (a distance equal to the tolerance is allowed).
C4_NotThruTolerance ==
  \A s \in DOMAIN call :
    (/\ Done(s, "Allowed")
     /\ call[s].edge.not_thru
     /\ HasPed(call[s].edge.forwardaccess)
     /\ ~call[s].uturn)
      => call[s].result = (call[s].dist2dest <= strategy.not_thru_distance_)

C4_Witness ==
  \E s \in DOMAIN call :
    /\ Done(s, "Allowed")
    /\ call[s].edge.not_thru
    /\ HasPed(call[s].edge.forwardaccess)
    /\ ~call[s].uturn
    /\ call[s].dist2dest = strategy.not_thru_distance_
    /\ call[s].dist2dest > 0
    /\ call[s].result

\* C5: access monotonicity.  Allowed is false on an edge without the
\* pedestrian forward-access bit; and between the edge with the bit cleared
\* and the same edge with the bit set (other arguments equal), a true result
\* on the former implies a true result on the latter.
C5_AccessMonotone ==
  \A s \in DOMAIN call :
    Done(s, "Allowed") =>
      LET e == call[s].edge
          on == [e EXCEPT !.forwardaccess = SetPed(e.forwardaccess)]
          off == [e EXCEPT !.forwardaccess = ClearPed(e.forwardaccess)]
          r == call[s].restriction
          u == call[s].uturn
          d == call[s].dist2dest
      IN  /\ ~HasPed(e.forwardaccess) => ~call[s].result
          /\ ~HasPed(e.forwardaccess) =>
               (call[s].result => Allowed(strategy, on, r, u, d))
          /\ HasPed(e.forwardaccess) =>
               (Allowed(strategy, off, r, u, d) => call[s].result)

C5_Witness ==
  \E s \in DOMAIN call :
    /\ Done(s, "Allowed")
    /\ call[s].edge.forwardaccess # 0
    /\ ~HasPed(call[s].edge.forwardaccess)
    /\ ~call[s].uturn /\ ~call[s].edge.not_thru
    /\ ~call[s].result
    /\ Allowed(strategy,
               [call[s].edge EXCEPT !.forwardaccess = SetPed(@)],
               call[s].restriction, call[s].uturn, call[s].dist2dest)

\* C6: U-turn rejection.  Allowed with uturn = true is false for every
\* edge, restriction mask and distance.
C6_UTurnRejected ==
  \A s \in DOMAIN call :
    Done(s, "Allowed") /\ call[s].uturn => ~call[s].result

C6_Witness ==
  \E s \in DOMAIN call :
    /\ Done(s, "Allowed")
    /\ call[s].uturn
    /\ HasPed(call[s].edge.forwardaccess)
    /\ ~call[s].edge.not_thru
    /\ ~call[s].result

\* C7: footway preference.  Get(edge) is 0.9 * length on a footway and
\* length on every other use (in tenths: 9 * length and 10 * length),
\* whatever the access mask, not-through flag and transition flags.
C7_FootwayPreference ==
  \A s \in DOMAIN call :
    Done(s, "Get") =>
      call[s].result = IF call[s].edge.use = "kFootway"
                       THEN 9 * call[s].edge.length
                       ELSE 10 * call[s].edge.length

C7_Witness ==
  \E s \in DOMAIN call :
    /\ Done(s, "Get")
    /\ call[s].edge.use = "kFootway" /\ call[s].edge.length = 50
    /\ call[s].edge.not_thru /\ call[s].edge.trans_up
    /\ call[s].result = 450

\* the value of a call record's operation on its arguments, for object self
ValueOf(self, c) ==
  CASE c.op = "Allowed" ->
         Allowed(self, c.edge, c.restriction, c.uturn, c.dist2dest)
    [] c.op = "AllowedNode" -> AllowedNode(self, c.node)
    [] c.op = "Get" -> Get(self, c.edge)
    [] c.op = "Seconds" -> Seconds(self, c.edge)
    [] c.op = "AStarCostFactor" -> AStarCostFactor(self)
    [] c.op = "UnitSize" -> UnitSize(self)
    [] c.op = "GetFilter" -> "EdgeFilter"
    [] c.op = "EdgeFilter" -> EdgeFilter(c.edge)

\* C8: immutability under sharing.  Once the strategy is constructed no
\* step of any search changes its parameters, and every result a search
\* holds after the step is the value of its operation on its own arguments
\* and the construction-time parameters, whatever the other searches did.
C8_ImmutableShared ==
  [][ ~strategy.null =>
        /\ strategy' = strategy
        /\ \A s \in DOMAIN call :
             (call'[s].pc = "returned" /\ call'[s].op # "CreatePedestrianCost")
               => call'[s].result = ValueOf(strategy, call'[s]) ]_vars

C8_Witness ==
  /\ Done("s1", "Get") /\ call["s1"].edge.use = "kFootway"
  /\ Done("s2", "Allowed") /\ call["s2"].result
  /\ call["s2"].edge.not_thru

\* C9: AllowedNode(node) is true exactly when the node's access mask
\* contains the pedestrian bit, whatever the other bits.
C9_NodeAllowed ==
  \A s \in DOMAIN call :
    Done(s, "AllowedNode") => call[s].result = HasPed(call[s].node.access)

C9_Witness ==
  \E s \in DOMAIN call :
    /\ Done(s, "AllowedNode")
    /\ call[s].node.access # 0
    /\ ~HasPed(call[s].node.access)
    /\ ~call[s].result

\* C10: turn restrictions are ignored.  The result of Allowed is the same
\* for every value of the restriction argument and of the edge's own
\* restriction mask, the other arguments being equal.
C10_RestrictionIgnored ==
  \A s \in DOMAIN call :
    Done(s, "Allowed") =>
      \A r \in Restrictions, er \in Restrictions :
        Allowed(strategy, [call[s].edge EXCEPT !.restrictions = er], r,
                call[s].uturn, call[s].dist2dest) = call[s].result

C10_Witness ==
  \E s \in DOMAIN call :
    /\ Done(s, "Allowed")
    /\ call[s].restriction = MaxRestriction
    /\ call[s].edge.restrictions = MaxRestriction
    /\ call[s].result

====
